---- MODULE Spec2Model ----
(***************************************************************************)
(* A model of src/tasks.py: parse_data_iter, task1 (exact-match lookup)    *)
(* and task2 (weighted average) over CSV data.                             *)
(*                                                                         *)
(* A Python str is a sequence of one-character strings ("-1" is            *)
(* <<"-","1">>).  A CSV source is the sequence of its lines as csv.reader  *)
(* yields them: each line a sequence of fields, a blank line the empty     *)
(* sequence.  One call of task1 or task2 is one behaviour: parse, check    *)
(* the keys, one step per loop iteration, return.                          *)
(***************************************************************************)
EXTENDS Integers, Sequences, FiniteSets, TLC

VARIABLES op, search, search_list, data, pos, pc, headers, expected_keys,
          search_key, search_set, total_weighted_sum, total_weight, result, err

vars == <<op, search, search_list, data, pos, pc, headers, expected_keys,
          search_key, search_set, total_weighted_sum, total_weight, result, err>>

(***************************************************************************)
(* Bounds of the checked inputs.                                           *)
(***************************************************************************)
MaxRows == 2
MaxSearch == 2
MaxAvgRows == 5

(***************************************************************************)
(* Python values.                                                          *)
(***************************************************************************)
\* None (DictReader's restval, and its restkey); never equal to a str.
PyNone == <<"<None>">>
\* result before the call has returned.
NoResult == <<"<unset>">>

DigitChars == <<"0", "1", "2", "3", "4", "5", "6", "7", "8", "9">>

IsDigit(c) == \E i \in 1..10 : DigitChars[i] = c

DigitVal(c) == (CHOOSE i \in 1..10 : DigitChars[i] = c) - 1

RECURSIVE NatStr(_)
\* The decimal digits of a natural number.
NatStr(n) == IF n < 10 THEN <<DigitChars[n + 1]>>
             ELSE NatStr(n \div 10) \o <<DigitChars[(n % 10) + 1]>>

\* str(v) for a search value: a str is itself, an int its decimal form.
PyStr(v) == IF v.kind = "int"
            THEN (IF v.n < 0 THEN <<"-">> \o NatStr(-v.n) ELSE NatStr(v.n))
            ELSE v.s

RECURSIVE LStrip(_)
LStrip(s) == IF s # <<>> /\ Head(s) = " " THEN LStrip(Tail(s)) ELSE s

RECURSIVE RStrip(_)
RStrip(s) == IF s # <<>> /\ s[Len(s)] = " " THEN RStrip(SubSeq(s, 1, Len(s) - 1)) ELSE s

\* The digits part of an int literal: digits, single underscores between them.
DigitsOk(s) == /\ s # <<>>
               /\ IsDigit(s[1])
               /\ IsDigit(s[Len(s)])
               /\ \A i \in 1..Len(s) : IsDigit(s[i]) \/ s[i] = "_"
               /\ \A i \in 1..(Len(s) - 1) : ~(s[i] = "_" /\ s[i + 1] = "_")

RECURSIVE DigitsVal(_, _)
DigitsVal(s, acc) == IF s = <<>> THEN acc
                     ELSE IF Head(s) = "_" THEN DigitsVal(Tail(s), acc)
                     ELSE DigitsVal(Tail(s), 10 * acc + DigitVal(Head(s)))

\* int(x) of a field: [ok, n, exc].  None is a TypeError, a str that is no
\* integer literal a ValueError.
PyInt(x) ==
    IF x = PyNone THEN [ok |-> FALSE, n |-> 0, exc |-> "TypeError"]
    ELSE LET t == RStrip(LStrip(x))
             signed == t # <<>> /\ Head(t) \in {"-", "+"}
             body == IF signed THEN Tail(t) ELSE t
         IN IF DigitsOk(body)
            THEN [ok |-> TRUE,
                  n |-> IF signed /\ Head(t) = "-" THEN -DigitsVal(body, 0)
                        ELSE DigitsVal(body, 0),
                  exc |-> "none"]
            ELSE [ok |-> FALSE, n |-> 0, exc |-> "ValueError"]

(***************************************************************************)
(* f"{round(total_weighted_sum / total_weight, 1):.1f}"                    *)
(***************************************************************************)
\* Significand bits of a Python float (an IEEE 754 double).
DoubleMantissa == 53

Abs(n) == IF n < 0 THEN -n ELSE n

RECURSIVE BitLen(_)
BitLen(n) == IF n = 0 THEN 0 ELSE 1 + BitLen(n \div 2)

RECURSIVE FracDir(_, _, _, _)
\* Binary long division of r / w after `sig` significant bits, the last one
\* `last`: how the quotient rounded to DoubleMantissa bits (to nearest, ties
\* to even) stands to the exact quotient: -1 below, 0 equal, 1 above.
FracDir(r, w, sig, last) ==
    IF r = 0 THEN 0
    ELSE IF sig >= DoubleMantissa
         THEN (IF 2 * r > w THEN 1
               ELSE IF 2 * r < w THEN -1
               ELSE IF last = 1 THEN 1 ELSE -1)
         ELSE LET b == (2 * r) \div w
              IN FracDir((2 * r) % w, w, IF sig = 0 /\ b = 0 THEN 0 ELSE sig + 1, b)

\* a / w as a float (a >= 0, w > 0) against the exact quotient.
FloatDir(a, w) == FracDir(a % w, w, BitLen(a \div w), (a \div w) % 2)

\* Mutant: halves always rounded away from zero.
RoundTenthsHalfUp(s, w) == (20 * Abs(s) + w) \div (2 * w)

\* round(|s / w|, 1) in tenths: the decimal nearest to the float s / w; a
\* float that lies exactly halfway goes to the even digit.
RoundTenths(s, w) ==
    LET a == Abs(s)
        q == (10 * a) \div w
        r == (10 * a) % w
        up == IF 2 * r > w THEN TRUE
              ELSE IF 2 * r < w THEN FALSE
              ELSE LET dir == FloatDir(a, w)
                   IN IF dir = 0 THEN q % 2 = 1 ELSE dir = 1
    IN IF up THEN q + 1 ELSE q

\* Mutant: a tenths digit of zero is dropped with the point ("5", not "5.0").
FormatAverageShort(s, w) ==
    LET t == RoundTenths(s, w)
    IN (IF s < 0 THEN <<"-">> ELSE <<>>)
         \o NatStr(t \div 10)
         \o (IF t % 10 = 0 THEN <<>> ELSE <<".">> \o <<DigitChars[(t % 10) + 1]>>)

\* The returned str: sign (also of a negative average that rounds to zero),
\* integer digits, ".", one digit.
FormatAverage(s, w) ==
    LET t == RoundTenths(s, w)
    IN (IF s < 0 THEN <<"-">> ELSE <<>>)
         \o NatStr(t \div 10) \o <<".">> \o <<DigitChars[(t % 10) + 1]>>

(***************************************************************************)
(* Dicts and csv.DictReader.  A dict is the sequence of its <<key, value>> *)
(* items in insertion order, the keys distinct.                            *)
(***************************************************************************)
\* The column names of the model, in Python's str order (what sorted() gives).
SortedCols == <<"id", "name", "value">>

DictKeys(d) == {d[i][1] : i \in DOMAIN d}

\* Items <<k, get[k]>> for the columns of `cols` taken in sorted order.
SortedItems(cols, get) ==
    LET pick[i \in 0..Len(SortedCols)] ==
            IF i = 0 THEN <<>>
            ELSE pick[i - 1] \o (IF SortedCols[i] \in cols
                                 THEN <<<<SortedCols[i], get[SortedCols[i]]>>>>
                                 ELSE <<>>)
    IN pick[Len(SortedCols)]

\* Mutant: the items are left in the dict's insertion order, not sorted.
NormalizeSearchUnsorted(d) == [i \in DOMAIN d |-> <<d[i][1], PyStr(d[i][2])>>]

\* tuple(sorted((k, str(v)) for k, v in search.items()))
NormalizeSearch(d) ==
    SortedItems(DictKeys(d),
                [k \in DictKeys(d) |-> PyStr(d[CHOOSE i \in DOMAIN d : d[i][1] = k][2])])

\* row[k] of the DictReader row made from `line` under `hdr`: the field under
\* the last header named k, None (restval) when the line is too short.
RowGet(hdr, line, k) ==
    LET i == CHOOSE j \in DOMAIN hdr :
                 hdr[j] = k /\ \A m \in DOMAIN hdr : hdr[m] = k => m <= j
    IN IF i <= Len(line) THEN line[i] ELSE PyNone

\* Mutant: the row key is built from every header column, "value" included.
RowKeyAllColumns(hdr, line, keys) ==
    SortedItems({hdr[i] : i \in DOMAIN hdr},
                [k \in {hdr[i] : i \in DOMAIN hdr} |-> RowGet(hdr, line, k)])

\* tuple(sorted((k, row[k]) for k in expected_keys))
RowKey(hdr, line, keys) == SortedItems(keys, [k \in keys |-> RowGet(hdr, line, k)])

\* Mutant: the "value" column is not taken out of the expected keys.
ExpectedKeysKeepValue(hdr) == {hdr[i] : i \in DOMAIN hdr}

\* set(headers) - {'value'}
ExpectedKeys(hdr) == {hdr[i] : i \in DOMAIN hdr} \ {"value"}

\* DictReader.__next__: the index of the next line that is not blank, 0 when
\* the stream is exhausted.
NextRow(d, p) ==
    IF \E i \in (p + 1)..Len(d) : d[i] # <<>>
    THEN CHOOSE i \in (p + 1)..Len(d) :
             d[i] # <<>> /\ \A j \in (p + 1)..(i - 1) : d[j] = <<>>
    ELSE 0

\* Mutant: a remainder that takes the sign of the value (-3 % 2 = -1), tested
\* against 1: a negative odd value is weighted as an even one.
WeightTruncatedRemainder(val) == IF val >= 0 /\ val % 2 = 1 THEN 10 ELSE 20

\* weight = 10 if val % 2 else 20
Weight(val) == IF val % 2 # 0 THEN 10 ELSE 20

(***************************************************************************)
(* The inputs of a call.                                                   *)
(***************************************************************************)
StrVal(s) == [kind |-> "str", s |-> s]
IntVal(n) == [kind |-> "int", n |-> n]

KeyId1 == << <<"id", StrVal(<<"1">>)>> >>
KeyId2 == << <<"id", StrVal(<<"2">>)>> >>
KeyIdInt1 == << <<"id", IntVal(1)>> >>
KeyIdName == << <<"id", StrVal(<<"1">>)>>, <<"name", StrVal(<<"a">>)>> >>
KeyNameId == << <<"name", StrVal(<<"a">>)>>, <<"id", StrVal(<<"1">>)>> >>
KeyIdValue == << <<"id", StrVal(<<"1">>)>>, <<"value", StrVal(<<"2">>)>> >>
KeyEmpty == << >>

\* Search dicts handed to task1.
SearchKeys == {KeyId1, KeyId2, KeyIdInt1, KeyIdName, KeyNameId, KeyIdValue, KeyEmpty}

\* Search dicts that make up the lists handed to task2.
ListKeys == {KeyId1, KeyId2, KeyIdInt1, KeyIdName}

SeqsUpTo(S, n) == UNION {[1..k -> S] : k \in 0..n}

SearchLists == SeqsUpTo(ListKeys, MaxSearch)
                 \cup {<<KeyIdValue>>, <<KeyId1, KeyIdValue>>, <<KeyNameId, KeyIdName>>}

\* First lines: two headers with a "value" column, and a blank line.
HeaderLines == {<<"id", "value">>, <<"name", "id", "value">>, <<>>}

\* Later lines: rows of two and three fields, one with a value that is no
\* integer, a short row and a blank line.
RowLines == {<<<<"1">>, <<"2">>>>, <<<<"1">>, <<"3">>>>, <<<<"2">>, <<"-", "1">>>>,
             <<<<"1">>, <<"x">>>>, <<<<"a">>, <<"1">>, <<"2">>>>, <<<<"1">>>>, <<>>}

Sources == {<<>>} \cup {<<h>> \o rows : h \in HeaderLines, rows \in SeqsUpTo(RowLines, MaxRows)}

\* Sources for the averages: rows of one key with small integer values.
AvgValues == {<<"0">>, <<"1">>, <<"3">>, <<"-", "1">>, <<"-", "2">>}

AvgSources == {<<<<"id", "value">>>> \o rows :
                  rows \in SeqsUpTo({<<<<"1">>, v>> : v \in AvgValues}, MaxAvgRows)}

(***************************************************************************)
(* The state machine of one call.                                          *)
(***************************************************************************)
Init ==
    /\ \/ /\ op = "task1"
          /\ search \in SearchKeys
          /\ search_list = <<>>
          /\ data \in Sources
       \/ /\ op = "task2"
          /\ search = <<>>
          /\ search_list \in SearchLists
          /\ data \in Sources
       \/ /\ op = "task2"
          /\ search = <<>>
          /\ search_list = <<KeyId1>>
          /\ data \in AvgSources
    /\ pos = 0
    /\ pc = "start"
    /\ headers = <<>>
    /\ expected_keys = {}
    /\ search_key = <<>>
    /\ search_set = {}
    /\ total_weighted_sum = 0
    /\ total_weight = 0
    /\ result = NoResult
    /\ err = "none"

\* The call ends by raising `e`.
Raise(e) == pc' = "error" /\ err' = e

\* parse_data_iter: reader.fieldnames reads the first line of the stream; no
\* line at all leaves it None.
ParseDataIter ==
    /\ pc = "start"
    /\ IF Len(data) = 0
       THEN /\ Raise("MissingHeader")
            /\ UNCHANGED <<pos, headers>>
       ELSE /\ headers' = data[1]
            /\ pos' = 1
            /\ pc' = "parsed"
            /\ err' = err
    /\ UNCHANGED <<op, search, search_list, data, expected_keys, search_key,
                   search_set, total_weighted_sum, total_weight, result>>

\* task1, from the header to the start of the scan.
Task1CheckKeys ==
    /\ pc = "parsed"
    /\ op = "task1"
    /\ expected_keys' = ExpectedKeys(headers)
    /\ IF DictKeys(search) # ExpectedKeys(headers)
       THEN /\ Raise("KeyMismatch")
            /\ search_key' = search_key
       ELSE /\ search_key' = NormalizeSearch(search)
            /\ pc' = "scan"
            /\ err' = err
    /\ UNCHANGED <<op, search, search_list, data, pos, headers, search_set,
                   total_weighted_sum, total_weight, result>>

\* One iteration of task1's loop.
Task1Row ==
    /\ pc = "scan"
    /\ op = "task1"
    /\ NextRow(data, pos) # 0
    /\ pos' = NextRow(data, pos)
    /\ LET row == data[NextRow(data, pos)]
       IN IF RowKey(headers, row, expected_keys) = search_key
          THEN IF \E i \in DOMAIN headers : headers[i] = "value"
               THEN /\ result' = RowGet(headers, row, "value")
                    /\ pc' = "done"
                    /\ err' = err
               ELSE /\ Raise("KeyError")
                    /\ result' = result
          ELSE UNCHANGED <<pc, err, result>>
    /\ UNCHANGED <<op, search, search_list, data, headers, expected_keys,
                   search_key, search_set, total_weighted_sum, total_weight>>

\* task1's loop ends: the stream is exhausted.
Task1End ==
    /\ pc = "scan"
    /\ op = "task1"
    /\ NextRow(data, pos) = 0
    /\ pos' = Len(data)
    /\ result' = <<"-", "1">>
    /\ pc' = "done"
    /\ UNCHANGED <<op, search, search_list, data, headers, expected_keys,
                   search_key, search_set, total_weighted_sum, total_weight, err>>

\* The set of the normalized keys of a search list.
SearchSet(list) == {NormalizeSearch(list[i]) : i \in DOMAIN list}

\* Mutant: any() in place of all().
AnyKeyMatches(list, keys) == \E i \in DOMAIN list : DictKeys(list[i]) = keys

\* Mutant: only the first dict of the list is checked.
FirstKeyMatches(list, keys) == list = <<>> \/ DictKeys(list[1]) = keys

\* all(set(search.keys()) == expected_keys for search in search_list)
AllKeysMatch(list, keys) == \A i \in DOMAIN list : DictKeys(list[i]) = keys

\* Mutant: a selected row whose value is no integer is skipped.
Task2StepSkipsBadValue(hdr, keys, sset, row, s, w) ==
    IF RowKey(hdr, row, keys) \in sset
    THEN IF \E i \in DOMAIN hdr : hdr[i] = "value"
         THEN LET val == PyInt(RowGet(hdr, row, "value"))
              IN IF val.ok
                 THEN [exc |-> "none", s |-> s + val.n * Weight(val.n), w |-> w + Weight(val.n)]
                 ELSE [exc |-> "none", s |-> s, w |-> w]
         ELSE [exc |-> "KeyError", s |-> s, w |-> w]
    ELSE [exc |-> "none", s |-> s, w |-> w]

\* The body of task2's loop for one row: the exception it raises ("none" when
\* it raises none) and the two totals after it.
Task2Step(hdr, keys, sset, row, s, w) ==
    IF RowKey(hdr, row, keys) \in sset
    THEN IF \E i \in DOMAIN hdr : hdr[i] = "value"
         THEN LET val == PyInt(RowGet(hdr, row, "value"))
              IN IF val.ok
                 THEN [exc |-> "none", s |-> s + val.n * Weight(val.n), w |-> w + Weight(val.n)]
                 ELSE [exc |-> val.exc, s |-> s, w |-> w]
         ELSE [exc |-> "KeyError", s |-> s, w |-> w]
    ELSE [exc |-> "none", s |-> s, w |-> w]

\* What task2 returns once its loop has ended.
Task2Result(s, w) == IF w = 0 THEN <<"-", "1">> ELSE FormatAverage(s, w)

\* task2, from the header to the start of the scan.
Task2CheckKeys ==
    /\ pc = "parsed"
    /\ op = "task2"
    /\ expected_keys' = ExpectedKeys(headers)
    /\ IF ~AllKeysMatch(search_list, ExpectedKeys(headers))
       THEN /\ Raise("KeyMismatch")
            /\ search_set' = search_set
       ELSE /\ search_set' = SearchSet(search_list)
            /\ pc' = "scan"
            /\ err' = err
    /\ UNCHANGED <<op, search, search_list, data, pos, headers, search_key,
                   total_weighted_sum, total_weight, result>>

\* One iteration of task2's loop.
Task2Row ==
    /\ pc = "scan"
    /\ op = "task2"
    /\ NextRow(data, pos) # 0
    /\ pos' = NextRow(data, pos)
    /\ LET step == Task2Step(headers, expected_keys, search_set,
                             data[NextRow(data, pos)], total_weighted_sum, total_weight)
       IN /\ total_weighted_sum' = step.s
          /\ total_weight' = step.w
          /\ IF step.exc = "none" THEN UNCHANGED <<pc, err>> ELSE Raise(step.exc)
    /\ UNCHANGED <<op, search, search_list, data, headers, expected_keys,
                   search_key, search_set, result>>

\* task2's loop ends: the sentinel or the formatted average.
Task2End ==
    /\ pc = "scan"
    /\ op = "task2"
    /\ NextRow(data, pos) = 0
    /\ pos' = Len(data)
    /\ result' = Task2Result(total_weighted_sum, total_weight)
    /\ pc' = "done"
    /\ UNCHANGED <<op, search, search_list, data, headers, expected_keys,
                   search_key, search_set, total_weighted_sum, total_weight, err>>

Next ==
    \/ ParseDataIter
    \/ Task1CheckKeys
    \/ Task1Row
    \/ Task1End
    \/ Task2CheckKeys
    \/ Task2Row
    \/ Task2End

Spec == Init /\ [][Next]_vars

RECURSIVE Task2Scan(_, _, _, _, _, _)
\* task2's loop from stream position p to its end, as one function.
Task2Scan(d, keys, sset, p, s, w) ==
    IF NextRow(d, p) = 0
    THEN [pc |-> "done", err |-> "none", result |-> Task2Result(s, w)]
    ELSE LET step == Task2Step(d[1], keys, sset, d[NextRow(d, p)], s, w)
         IN IF step.exc = "none"
            THEN Task2Scan(d, keys, sset, NextRow(d, p), step.s, step.w)
            ELSE [pc |-> "error", err |-> step.exc, result |-> NoResult]

\* task2(list, d) as one function: how the call ends.
Task2Outcome(list, d) ==
    IF Len(d) = 0
    THEN [pc |-> "error", err |-> "MissingHeader", result |-> NoResult]
    ELSE IF ~AllKeysMatch(list, ExpectedKeys(d[1]))
         THEN [pc |-> "error", err |-> "KeyMismatch", result |-> NoResult]
         ELSE Task2Scan(d, ExpectedKeys(d[1]), SearchSet(list), 1, 0, 0)

(***************************************************************************)
(* The vocabulary of the properties, stated on the source itself: its      *)
(* header line, its rows, and which rows a search dict selects.            *)
(***************************************************************************)
Finished == pc \in {"done", "error"}

HasHeader == Len(data) >= 1

Cols(h) == {h[i] : i \in DOMAIN h}

\* The header names a "value" column.
HasValueCol == HasHeader /\ "value" \in Cols(data[1])

\* The header's columns other than "value".
KeyCols == Cols(data[1]) \ {"value"}

WellFormed(d) == DictKeys(d) = KeyCols

\* The lines of the source that are data rows.
DataRows == {i \in 2..Len(data) : data[i] # <<>>}

\* The field of row i under column c (no header of the inputs repeats a name).
Field(i, c) ==
    LET j == CHOOSE n \in DOMAIN data[1] : data[1][n] = c
    IN IF j <= Len(data[i]) THEN data[i][j] ELSE PyNone

\* The search value of dict d for column c, as text.
KeyValue(d, c) == PyStr(d[CHOOSE n \in DOMAIN d : d[n][1] = c][2])

\* Every non-value column of row i equals the search value of d.
RowMatchesKey(i, d) == WellFormed(d) /\ \A c \in KeyCols : Field(i, c) = KeyValue(d, c)

Task1Matches == {i \in DataRows : RowMatchesKey(i, search)}

Task2Matches == {i \in DataRows : \E n \in DOMAIN search_list : RowMatchesKey(i, search_list[n])}

MinOf(S) == CHOOSE x \in S : \A y \in S : x <= y

\* The search of the call has a dict whose columns are not the key columns.
Malformed == IF op = "task1" THEN ~WellFormed(search)
             ELSE \E n \in DOMAIN search_list : ~WellFormed(search_list[n])

\* C1: with a header present, a search dict (task2: any dict of the list)
\* whose column set differs from the header's columns minus "value" makes the
\* call raise the key-mismatch error and return nothing, whatever the rows.
C1_KeyMismatchRaised ==
    (HasHeader /\ Malformed /\ pc \notin {"start", "parsed"})
        => (pc = "error" /\ err = "KeyMismatch" /\ result = NoResult)

\* A list with a malformed dict and a well-formed one that selects a row.
C1_Witness ==
    /\ op = "task2"
    /\ err = "KeyMismatch"
    /\ \E n \in DOMAIN search_list, i \in DataRows : RowMatchesKey(i, search_list[n])

\* C2: for a well-formed search dict on a source with a "value" column, task1
\* returns the "value" field of the earliest matching row, and "-1" when no
\* row matches.
C2_FirstMatchOrSentinel ==
    (op = "task1" /\ HasValueCol /\ WellFormed(search) /\ Finished)
        => /\ pc = "done"
           /\ result = IF Task1Matches = {} THEN <<"-", "1">>
                       ELSE Field(MinOf(Task1Matches), "value")

\* Two matching rows with different values: the earlier one is returned.
C2_Witness ==
    /\ op = "task1"
    /\ pc = "done"
    /\ \E i, j \in Task1Matches :
          /\ i < j
          /\ Field(i, "value") # Field(j, "value")
          /\ i = MinOf(Task1Matches)
          /\ result = Field(i, "value")

\* C3: with a header present, task2 returns "-1" for the empty search list
\* (no key-mismatch error) and for a well-formed list that selects no row.
C3_SentinelWhenNothingMatches ==
    (op = "task2" /\ HasHeader /\ Finished
       /\ (search_list = <<>> \/ (~Malformed /\ Task2Matches = {})))
        => (pc = "done" /\ result = <<"-", "1">>)

\* The empty list over a source that has rows.
C3_Witness ==
    op = "task2" /\ pc = "done" /\ search_list = <<>> /\ DataRows # {}
       /\ result = <<"-", "1">>

\* The integer a row's "value" field holds.
ValueOf(i) == PyInt(Field(i, "value")).n

\* 20 for an even value, 10 for an odd one.
StatedWeight(n) == IF (n \div 2) * 2 = n THEN 20 ELSE 10

RECURSIVE SumWeights(_)
SumWeights(S) ==
    IF S = {} THEN 0
    ELSE LET i == CHOOSE x \in S : TRUE
         IN StatedWeight(ValueOf(i)) + SumWeights(S \ {i})

RECURSIVE SumWeighted(_)
SumWeighted(S) ==
    IF S = {} THEN 0
    ELSE LET i == CHOOSE x \in S : TRUE
         IN ValueOf(i) * StatedWeight(ValueOf(i)) + SumWeighted(S \ {i})

\* The rows selected by the list among those the loop has read.
MatchedSoFar == {i \in Task2Matches : i <= pos}

\* A number of tenths written with one digit after the point.
Tenths(neg, t) ==
    (IF neg THEN <<"-">> ELSE <<>>)
       \o NatStr(t \div 10) \o <<".">> \o NatStr(t % 10)

\* Scenario C: rows (id=1,value=2),(id=1,value=3), search [{id:"1"}].
ScenarioC ==
    /\ op = "task2"
    /\ search_list = <<KeyId1>>
    /\ data = << <<"id", "value">>, <<<<"1">>, <<"2">>>>, <<<<"1">>, <<"3">>>> >>

\* C4: while task2 scans a source whose selected rows hold integers, the two
\* totals are the sums, over the selected rows read so far (each data row
\* once), of value*weight and of weight, the weight 20 for an even value and
\* 10 for an odd one, negative values included; the result is the quotient to
\* one decimal, and scenario C gives "2.3".
C4_WeightedTotals ==
    (op = "task2" /\ HasValueCol /\ ~Malformed /\ pc \in {"scan", "done"})
        => /\ total_weight = SumWeights(MatchedSoFar)
           /\ total_weighted_sum = SumWeighted(MatchedSoFar)
           /\ (pc = "done" /\ total_weight > 0)
                 => \E t \in 0..(10 * Abs(total_weighted_sum)) :
                       /\ result = Tenths(total_weighted_sum < 0, t)
                       /\ Abs(10 * Abs(total_weighted_sum) - t * total_weight) < total_weight
           /\ (pc = "done" /\ ScenarioC) => result = <<"2", ".", "3">>

\* Scenario C has run to its end, totals 70 and 30.
C4_Witness ==
    /\ ScenarioC
    /\ pc = "done"
    /\ total_weighted_sum = 70
    /\ total_weight = 30
    /\ result = <<"2", ".", "3">>

\* Rows with a negative odd and a negative even value have been counted,
\* and two identical rows twice.
C4_NegativeValuesCounted ==
    /\ op = "task2"
    /\ pc = "done"
    /\ \E i, j, k \in MatchedSoFar :
          /\ ValueOf(i) = -1
          /\ ValueOf(j) = -2
          /\ k # j /\ data[k] = data[j]

\* The average lies exactly halfway between two one-decimal values.
Halfway(s, w) == (20 * Abs(s)) % (2 * w) = w

C5_RoundsNearestHalfToEven ==
    (op = "task2" /\ pc = "done" /\ total_weight > 0)
        => \E t \in 0..(10 * Abs(total_weighted_sum) + 1) :
              /\ result = Tenths(total_weighted_sum < 0, t)
              /\ 2 * Abs(10 * Abs(total_weighted_sum) - t * total_weight) <= total_weight
              /\ (Halfway(total_weighted_sum, total_weight)
                    /\ (4 * Abs(total_weighted_sum)) % total_weight = 0)
                    => t % 2 = 0

\* Values 1,1,0,0,0: the average 20/80 = 0.25 is returned as "0.2".
C5_Witness ==
    /\ op = "task2"
    /\ pc = "done"
    /\ total_weighted_sum = 20
    /\ total_weight = 80
    /\ result = <<"0", ".", "2">>

\* A whole average keeps its digit after the point: 5 would be "5.0"; here 3.
C5_WholeAverage ==
    op = "task2" /\ pc = "done" /\ total_weighted_sum = 3 * total_weight
       /\ total_weight > 0 /\ result = <<"3", ".", "0">>

\* Two dicts have the same column-to-value content.
SameContent(a, b) == {a[i] : i \in DOMAIN a} = {b[i] : i \in DOMAIN b}

\* The list with every dict removed that repeats an earlier one.
Dedup(list) ==
    LET kept[i \in 0..Len(list)] ==
            IF i = 0 THEN <<>>
            ELSE IF \E j \in 1..(i - 1) : SameContent(list[j], list[i])
                 THEN kept[i - 1]
                 ELSE Append(kept[i - 1], list[i])
    IN kept[Len(list)]

\* C6: for a well-formed list, task2 ends as it does on the list with the
\* repeated dicts removed, and every selected row adds its weight once,
\* however many dicts of the list select it.
C6_DuplicateKeysCountOnce ==
    (op = "task2" /\ HasHeader /\ ~Malformed /\ Finished)
        => /\ [pc |-> pc, err |-> err, result |-> result]
                 = Task2Outcome(Dedup(search_list), data)
           /\ (pc = "done" /\ HasValueCol) => total_weight = SumWeights(Task2Matches)

\* A list that repeats a dict which selects a row.
C6_Witness ==
    /\ op = "task2"
    /\ pc = "done"
    /\ Len(Dedup(search_list)) < Len(search_list)
    /\ total_weight > 0

\* A field that is certainly no integer literal.
NonInteger(f) ==
    \/ f = PyNone
    \/ f = <<>>
    \/ \E i \in DOMAIN f : ~IsDigit(f[i]) /\ f[i] \notin {"-", "+", " ", "_"}

\* The selected rows whose "value" field is no integer.
BadRows == {i \in Task2Matches : NonInteger(Field(i, "value"))}

\* C7: in task2 with a well-formed list, once the loop has read the first
\* selected row whose value is no integer the call has raised the parsing
\* error there, with no result; the row is never passed over.
C7_BadValueIsFatal ==
    (op = "task2" /\ HasValueCol /\ ~Malformed /\ BadRows # {}
       /\ pos >= MinOf(BadRows))
        => /\ pc = "error"
           /\ err \in {"ValueError", "TypeError"}
           /\ result = NoResult
           /\ pos = MinOf(BadRows)

\* The bad row came after a selected row that had been counted.
C7_Witness ==
    /\ op = "task2"
    /\ err = "ValueError"
    /\ total_weight > 0
    /\ pos = MinOf(BadRows)

\* The bad row is the first row, and rows follow it unread.
C7_BadRowFirst ==
    /\ op = "task2"
    /\ err = "ValueError"
    /\ pos = 2
    /\ pos < Len(data)

\* C8 as stated: a returned header list is never empty, and a source with no
\* header line, or a blank first line, ends in the missing-header error.
C8_HeaderNeverEmpty ==
    /\ (pc # "start" /\ err # "MissingHeader") => headers # <<>>
    /\ (pc # "start" /\ (Len(data) = 0 \/ data[1] = <<>>))
          => (pc = "error" /\ err = "MissingHeader")

\* C9: when a dict of task2's list is malformed, the stream is never read
\* past the header line, nothing is accumulated, and the call ends in the
\* key-mismatch error.
C9_KeysCheckedBeforeRows ==
    (op = "task2" /\ HasHeader /\ Malformed)
        => /\ pos <= 1
           /\ total_weight = 0
           /\ pc # "scan"
           /\ Finished => (pc = "error" /\ err = "KeyMismatch")

\* The key-mismatch error, although a well-formed dict of the list selects a
\* row whose value is no integer.
C9_Witness ==
    /\ op = "task2"
    /\ err = "KeyMismatch"
    /\ pos = 1
    /\ \E n \in DOMAIN search_list, i \in DataRows :
          RowMatchesKey(i, search_list[n]) /\ NonInteger(Field(i, "value"))

\* C10 as stated: "-1" is returned only when no row matched.
C10_SentinelOnlyWhenNoMatch ==
    (pc = "done" /\ result = <<"-", "1">>)
        => IF op = "task1" THEN Task1Matches = {} ELSE Task2Matches = {}

\* C10, amended: task2 returns "-1" only when no row matched; task1 returns
\* it only when no row matched or the first matching row's value is "-1".
C10_SentinelUnlessValueIsMinusOne ==
    (pc = "done" /\ result = <<"-", "1">>)
        => IF op = "task1"
           THEN \/ Task1Matches = {}
                \/ Field(MinOf(Task1Matches), "value") = <<"-", "1">>
           ELSE Task2Matches = {}

\* task2 over rows whose average is exactly -1 returns "-1.0".
C10_Witness ==
    /\ op = "task2"
    /\ pc = "done"
    /\ Task2Matches # {}
    /\ total_weighted_sum = -total_weight
    /\ result = <<"-", "1", ".", "0">>

====
